---- MODULE Spec2Model ----
(***************************************************************************)
(* Model of plugins/modules/terraform_output.py: one invocation of the     *)
(* terraform_output module (main -> get_outputs -> _state_args), together  *)
(* with the environment it consumes: the filesystem seen by                *)
(* os.path.exists, the PATH lookup behind get_bin_path, and the exit code  *)
(* and streams of the spawned `terraform output` process.                  *)
(***************************************************************************)
EXTENDS Integers, Sequences, FiniteSets, TLC

VARIABLES
    project_path,     \* module.params["project_path"]
    binary_path,      \* module.params["binary_path"]
    state_file,       \* module.params["state_file"]
    fs,               \* paths that exist on disk right now
    fs0,              \* paths that existed when the invocation started
    changed,          \* paths created or deleted by other processes since then
    fsEvents,         \* number of such creations and deletions
    which,            \* what a PATH lookup of "terraform" finds (None: nothing)
    pc,               \* position of the invocation in main / get_outputs
    terraform_binary, \* local of main
    state_args,       \* value returned by _state_args
    rc,               \* exit code received from run_command
    outputs_text,     \* captured standard output
    outputs_err,      \* captured standard error
    raised,           \* exception propagating out of main (None: none)
    get_bin_calls,    \* calls of module.get_bin_path
    run_calls,        \* calls of module.run_command
    warn_calls,       \* calls of module.warn
    fail_calls,       \* calls of module.fail_json
    exit_calls        \* calls of module.exit_json

vars == <<project_path, binary_path, state_file, fs, fs0, changed, fsEvents,
          which, pc, terraform_binary, state_args, rc, outputs_text,
          outputs_err, raised, get_bin_calls, run_calls, warn_calls,
          fail_calls, exit_calls>>

params == <<project_path, binary_path, state_file>>
locals == <<terraform_binary, state_args, rc, outputs_text, outputs_err>>
disk   == <<fs, fs0, changed, fsEvents>>

(***************************************************************************)
(* Bounds of the model.                                                    *)
(***************************************************************************)
MaxFsEvents == 2
MaxRc == 2

(***************************************************************************)
(* Values.                                                                 *)
(***************************************************************************)
\* Python's None; it is no path and no stream content.
None == "<None>"

StatePaths == {"/s/a.tfstate", "/s/b.tfstate"}
BinaryPaths == {"/opt/tf/terraform"}
ProjectPaths == {"/proj"}
RcValues == (0 - MaxRc)..MaxRc
StderrTexts == {"", "no outputs", "boom"}

\* Python truthiness of an optional string, as in `if state_file and ...`.
Truthy(s) == s # None /\ s # ""

\* os.path.exists(path) against the disk as it is at the moment of the call.
PathExists(path, files) == path \in files

\* The standard outputs the subprocess may print, with what json.loads makes
\* of each; a text outside JsonDocuments makes json.loads raise.
BukkitText == "{\"bukkit_arn\": {\"sensitive\": false, \"type\": \"string\", \"value\": \"arn:aws:s3:::tf-test-bukkit\"}}"
TwoText == "{\"a\": {\"sensitive\": true, \"type\": \"string\", \"value\": \"s3cret\"}, \"b\": {\"sensitive\": false, \"type\": \"string\", \"value\": \"x\"}}"
EmptyText == "{}"
EmptyDict == <<>>
JsonDocuments ==
    (EmptyText :> EmptyDict)
    @@ (BukkitText :> [bukkit_arn |-> [sensitive |-> FALSE, type |-> "string",
                                       value |-> "arn:aws:s3:::tf-test-bukkit"]])
    @@ (TwoText :> [a |-> [sensitive |-> TRUE, type |-> "string", value |-> "s3cret"],
                    b |-> [sensitive |-> FALSE, type |-> "string", value |-> "x"]])
InvalidTexts == {"", "Error: no state", "{\"bukkit_arn\": {\"sensitive\""}
StdoutTexts == DOMAIN JsonDocuments \cup InvalidTexts

IsValidJson(text) == text \in DOMAIN JsonDocuments

\* A decoder that keeps only `type` and `value` of every entry.
json_loads_dropping_sensitive(text) ==
    [k \in DOMAIN JsonDocuments[text] |->
        [type |-> JsonDocuments[text][k].type, value |-> JsonDocuments[text][k].value]]
\* json.loads(outputs_text) for a text that decodes.
json_loads(text) == JsonDocuments[text]

(***************************************************************************)
(* Command line and messages.                                              *)
(***************************************************************************)
\* " ".join(words)
RECURSIVE Join(_)
Join(words) ==
    IF Len(words) = 0 THEN ""
    ELSE IF Len(words) = 1 THEN words[1]
    ELSE words[1] \o " " \o Join(Tail(words))

\* The flag written as one word.
StateFlagOneWord(path) == <<"-state=" \o path>>
\* ["-state", state_file]
StateFlag(path) == <<"-state", path>>

BaseArgs == <<"output", "-no-color", "-json">>

\* [terraform_binary, "output", "-no-color", "-json"] + _state_args(state_file)
OutputsCommand(binary, args) == <<binary>> \o BaseArgs \o args

\* A formatted message is the sequence of the pieces str.format joins.
Contains(msg, piece) == \E i \in DOMAIN msg : msg[i] = piece

\* The message without the path.
MissingStateMsgNoPath(path) == <<"Could not find state_file, check the path and try again.">>
\* 'Could not find state_file "{0}", check the path and try again.'.format(state_file)
MissingStateMsg(path) ==
    <<"Could not find state_file \"", path, "\", check the path and try again.">>

WarnMsg(out, err) ==
    <<"Could not get Terraform outputs. This usually means none have been defined.\nstdout: ",
      out, "\nstderr: ", err>>

FailureMsg(code, out, err) ==
    <<"Failure when getting Terraform outputs. Exited ", ToString(code),
      ".\nstdout: ", out, "\nstderr: ", err>>

\* get_bin_path(..., required=True) reporting that nothing was found.
BinPathMsg(name) == <<"Failed to find required executable \"", name, "\"">>

(***************************************************************************)
(* module.fail_json: it reports and exits the process. `cont` is where     *)
(* the caller would go on if the call returned.                            *)
(***************************************************************************)
\* A fail_json that returns to its caller.
FailJsonReturns(cont) == cont
FailJsonPc(cont) == "failed"

(***************************************************************************)
(* Decisions of the code.                                                  *)
(***************************************************************************)
\* `if bin_path:` instead of `if bin_path is not None:`.
UsesSuppliedIfTruthy(bp) == Truthy(bp)
\* main: `if bin_path is not None`
UsesSupplied(bp) == bp # None

\* Only positive codes count as failures.
IsFatalRcPositiveOnly(code) == code > 1
\* get_outputs: the `elif rc != 0` branch, reached when rc != 1
IsFatalRc(code) == code # 1 /\ code # 0

\* The warning branch decoding standard output when it can.
WarnOutputsDecoded(text) == IF IsValidJson(text) THEN json_loads(text) ELSE EmptyDict
\* get_outputs: `outputs = {}` in the rc == 1 branch
WarnOutputs(text) == EmptyDict

\* A retry of the command after the warning.
AfterWarnRetry == "run"
\* get_outputs: after the rc == 1 branch control falls through to `return outputs`
AfterWarn == "done"

\* A decode error turned into a structured failure.
DecodeErrorWrapped == [pc |-> "failed", raised |-> None,
                       fails |-> <<[msg |-> <<"JSONDecodeError">>, command |-> None]>>]
\* json.loads raising: nothing catches it in get_outputs or main
DecodeError == [pc |-> "raised", raised |-> "JSONDecodeError", fails |-> <<>>]

(***************************************************************************)
(* Initial state: the parameters Ansible hands over and the environment.   *)
(***************************************************************************)
Init ==
    /\ project_path \in {None} \cup ProjectPaths
    /\ binary_path \in {None, ""} \cup BinaryPaths
    /\ state_file \in {None, ""} \cup StatePaths
    /\ fs \in SUBSET StatePaths
    /\ fs0 = fs
    /\ changed = {}
    /\ fsEvents = 0
    /\ which \in {None, "/usr/bin/terraform"}
    /\ pc = "main"
    /\ terraform_binary = None
    /\ state_args = <<>>
    /\ rc = 0
    /\ outputs_text = None
    /\ outputs_err = None
    /\ raised = None
    /\ get_bin_calls = <<>>
    /\ run_calls = <<>>
    /\ warn_calls = <<>>
    /\ fail_calls = <<>>
    /\ exit_calls = <<>>

(***************************************************************************)
(* Other processes creating and deleting files while the module runs.      *)
(***************************************************************************)
EnvCreate ==
    /\ fsEvents < MaxFsEvents
    /\ \E p \in StatePaths \ fs :
        /\ fs' = fs \cup {p}
        /\ changed' = changed \cup {p}
    /\ fsEvents' = fsEvents + 1
    /\ UNCHANGED <<params, fs0, which, pc, locals, raised, get_bin_calls,
                   run_calls, warn_calls, fail_calls, exit_calls>>

EnvDelete ==
    /\ fsEvents < MaxFsEvents
    /\ \E p \in fs :
        /\ fs' = fs \ {p}
        /\ changed' = changed \cup {p}
    /\ fsEvents' = fsEvents + 1
    /\ UNCHANGED <<params, fs0, which, pc, locals, raised, get_bin_calls,
                   run_calls, warn_calls, fail_calls, exit_calls>>

(***************************************************************************)
(* main, lines 132-139: read the parameters and resolve the binary.        *)
(***************************************************************************)
ResolveBinary ==
    /\ pc = "main"
    /\ IF UsesSupplied(binary_path)
       THEN /\ terraform_binary' = binary_path
            /\ pc' = "state_args"
            /\ UNCHANGED <<get_bin_calls, fail_calls>>
       ELSE /\ get_bin_calls' = Append(get_bin_calls, [name |-> "terraform", required |-> TRUE])
            /\ terraform_binary' = which
            /\ IF which = None
               THEN /\ fail_calls' = Append(fail_calls,
                                       [msg |-> BinPathMsg("terraform"), command |-> None])
                    /\ pc' = FailJsonPc("state_args")
               ELSE /\ pc' = "state_args"
                    /\ UNCHANGED fail_calls
    /\ UNCHANGED <<params, disk, which, state_args, rc, outputs_text, outputs_err,
                   raised, run_calls, warn_calls, exit_calls>>

(***************************************************************************)
(* _state_args, line 82-83: the first existence check.                     *)
(***************************************************************************)
StateArgsFirstCheck ==
    /\ pc = "state_args"
    /\ IF Truthy(state_file) /\ PathExists(state_file, fs)
       THEN /\ state_args' = StateFlag(state_file)
            /\ pc' = "run"
       ELSE /\ pc' = "state_args_2"
            /\ UNCHANGED state_args
    /\ UNCHANGED <<params, disk, which, terraform_binary, rc, outputs_text,
                   outputs_err, raised, get_bin_calls, run_calls, warn_calls,
                   fail_calls, exit_calls>>

(***************************************************************************)
(* _state_args, lines 84-90: the second existence check.                   *)
(***************************************************************************)
StateArgsSecondCheck ==
    /\ pc = "state_args_2"
    /\ state_args' = <<>>
    /\ IF Truthy(state_file) /\ ~PathExists(state_file, fs)
       THEN /\ fail_calls' = Append(fail_calls,
                               [msg |-> MissingStateMsg(state_file), command |-> None])
            /\ pc' = FailJsonPc("run")
       ELSE /\ pc' = "run"
            /\ UNCHANGED fail_calls
    /\ UNCHANGED <<params, disk, which, terraform_binary, rc, outputs_text,
                   outputs_err, raised, get_bin_calls, run_calls, warn_calls,
                   exit_calls>>

(***************************************************************************)
(* get_outputs, lines 94-99: build the command, spawn it, wait for it.     *)
(***************************************************************************)
RunCommand ==
    /\ pc = "run"
    /\ run_calls' = Append(run_calls,
                      [cmd |-> OutputsCommand(terraform_binary, state_args),
                       cwd |-> project_path,
                       fs  |-> fs])   \* the disk as it was when the process was spawned
    /\ \E code \in RcValues, out \in StdoutTexts, err \in StderrTexts :
        /\ rc' = code
        /\ outputs_text' = out
        /\ outputs_err' = err
    /\ pc' = "classify"
    /\ UNCHANGED <<params, disk, which, terraform_binary, state_args, raised,
                   get_bin_calls, warn_calls, fail_calls, exit_calls>>

(***************************************************************************)
(* get_outputs, lines 100-119, and main, line 147: classify the exit code, *)
(* decode, and hand the result to exit_json.                               *)
(***************************************************************************)
ClassifyAndExit ==
    /\ pc = "classify"
    /\ IF rc = 1
       THEN /\ warn_calls' = Append(warn_calls, WarnMsg(outputs_text, outputs_err))
            /\ exit_calls' = IF AfterWarn = "done"
                             THEN Append(exit_calls, [outputs |-> WarnOutputs(outputs_text)])
                             ELSE exit_calls
            /\ pc' = AfterWarn
            /\ UNCHANGED <<fail_calls, raised>>
       ELSE IF IsFatalRc(rc)
       THEN /\ fail_calls' = Append(fail_calls,
                               [msg |-> FailureMsg(rc, outputs_text, outputs_err),
                                command |-> Join(run_calls[Len(run_calls)].cmd)])
            \* were fail_json to return, `return outputs` reads an unbound local
            /\ pc' = FailJsonPc("raised")
            /\ raised' = IF FailJsonPc("raised") = "raised" THEN "UnboundLocalError" ELSE None
            /\ UNCHANGED <<warn_calls, exit_calls>>
       ELSE IF IsValidJson(outputs_text)
       THEN /\ exit_calls' = Append(exit_calls, [outputs |-> json_loads(outputs_text)])
            /\ pc' = "done"
            /\ UNCHANGED <<warn_calls, fail_calls, raised>>
       ELSE /\ pc' = DecodeError.pc
            /\ raised' = DecodeError.raised
            /\ fail_calls' = fail_calls \o DecodeError.fails
            /\ UNCHANGED <<warn_calls, exit_calls>>
    /\ UNCHANGED <<params, disk, which, locals, get_bin_calls, run_calls>>

Next ==
    \/ ResolveBinary
    \/ StateArgsFirstCheck
    \/ StateArgsSecondCheck
    \/ RunCommand
    \/ ClassifyAndExit
    \/ EnvCreate
    \/ EnvDelete

Spec == Init /\ [][Next]_vars

(***************************************************************************)
(* Vocabulary of the properties.                                           *)
(***************************************************************************)
Terminated == pc \in {"failed", "raised", "done"}
Validating == pc \in {"main", "state_args", "state_args_2"}
\* The exit code has been classified.
Classified == run_calls # <<>> /\ pc # "classify"
\* The path was, and stayed, absent (present) during the invocation so far.
AbsentThroughout(p) == p \notin fs0 /\ p \notin changed
PresentThroughout(p) == p \in fs0 /\ p \notin changed
BinaryResolved == binary_path # None \/ which # None
ResolvedBinary == IF binary_path # None THEN binary_path ELSE which
Fatal == fail_calls # <<>> \/ raised # None
ReportedMissingState ==
    \E i \in DOMAIN fail_calls : Contains(fail_calls[i].msg, "Could not find state_file \"")
ReportedMissingBinary ==
    \E i \in DOMAIN fail_calls : Contains(fail_calls[i].msg, "Failed to find required executable \"")

(***************************************************************************)
(* C1                                                                      *)
(***************************************************************************)
\* C1 as stated: whenever state_file is supplied (not None) and absent from
\* disk, the invocation ends in a fatal failure whose message includes the
\* path, and run_command is never called.
C1_AsStated ==
    (state_file # None /\ AbsentThroughout(state_file))
        => /\ run_calls = <<>>
           /\ Terminated => /\ pc = "failed"
                            /\ Len(fail_calls) = 1
                            /\ Contains(fail_calls[1].msg, state_file)

\* C1 amended: whenever state_file is non-empty and absent from disk, the
\* invocation never calls run_command and can only end in a fatal failure;
\* when binary resolution succeeded, that failure is the single
\* missing-state-file failure and its message includes the path.
C1_MissingStateFileFails ==
    (Truthy(state_file) /\ AbsentThroughout(state_file))
        => /\ run_calls = <<>>
           /\ Validating \/ pc = "failed"
           /\ (pc = "failed" /\ BinaryResolved)
                => /\ Len(fail_calls) = 1
                   /\ Contains(fail_calls[1].msg, state_file)
                   /\ fail_calls[1].msg = <<"Could not find state_file \"", state_file,
                                            "\", check the path and try again.">>

C1_Witness ==
    /\ state_file = "/s/a.tfstate"
    /\ AbsentThroughout(state_file)
    /\ BinaryResolved
    /\ pc = "failed"
    /\ Contains(fail_calls[1].msg, "/s/a.tfstate")
    /\ run_calls = <<>>

(***************************************************************************)
(* C2                                                                      *)
(***************************************************************************)
\* C2 as stated: when the subprocess exits with a code other than 0 or 1,
\* the invocation fails and the failure message contains the exit code and
\* the space-joined command line.
C2_AsStated ==
    (Classified /\ rc \notin {0, 1})
        => /\ pc = "failed"
           /\ Len(fail_calls) = 1
           /\ Contains(fail_calls[1].msg, ToString(rc))
           /\ Contains(fail_calls[1].msg, Join(run_calls[1].cmd))

\* C2 amended: when the subprocess exits with a code other than 0 or 1
\* (negative codes included), the invocation fails; the failure message
\* contains the exit code, the captured stdout and the captured stderr, and
\* the space-joined command line is reported beside the message, in the
\* failure's separate `command` field, not inside the message.
C2_FatalExitCode ==
    (Classified /\ rc \notin {0, 1})
        => /\ pc = "failed"
           /\ Len(fail_calls) = 1
           /\ Contains(fail_calls[1].msg, ToString(rc))
           /\ Contains(fail_calls[1].msg, outputs_text)
           /\ Contains(fail_calls[1].msg, outputs_err)
           /\ fail_calls[1].command = Join(run_calls[1].cmd)
           /\ exit_calls = <<>>

C2_Witness ==
    /\ Classified
    /\ rc = 0 - 1
    /\ outputs_err = "boom"
    /\ pc = "failed"
    /\ Contains(fail_calls[1].msg, "-1")
    /\ fail_calls[1].command = "/opt/tf/terraform output -no-color -json -state /s/a.tfstate"

(***************************************************************************)
(* C3                                                                      *)
(***************************************************************************)
\* C3: when the subprocess exits with code 1, whatever it printed, exactly
\* one warning carrying stdout and stderr is recorded, nothing fatal happens
\* and exit_json receives outputs = {}.
C3_ExitOneWarns ==
    (Classified /\ rc = 1)
        => /\ pc = "done"
           /\ Len(warn_calls) = 1
           /\ Contains(warn_calls[1], outputs_text)
           /\ Contains(warn_calls[1], outputs_err)
           /\ fail_calls = <<>>
           /\ raised = None
           /\ exit_calls = <<[outputs |-> EmptyDict]>>

C3_Witness ==
    /\ Classified
    /\ rc = 1
    /\ outputs_text = BukkitText
    /\ outputs_err = "no outputs"
    /\ pc = "done"
    /\ Len(warn_calls) = 1
    /\ exit_calls = <<[outputs |-> <<>>]>>

(***************************************************************************)
(* C4                                                                      *)
(***************************************************************************)
\* C4: when the subprocess exits with code 0 and printed valid JSON,
\* exit_json is called once with the single key `outputs` holding the
\* decoded document, every entry with its sensitive, type and value fields,
\* and neither a warning nor a failure is reported.
C4_SuccessReturnsDecoded ==
    (Classified /\ rc = 0 /\ outputs_text \in DOMAIN JsonDocuments)
        => /\ pc = "done"
           /\ Len(exit_calls) = 1
           /\ DOMAIN exit_calls[1] = {"outputs"}
           /\ exit_calls[1].outputs = JsonDocuments[outputs_text]
           /\ \A k \in DOMAIN exit_calls[1].outputs :
                DOMAIN exit_calls[1].outputs[k] = {"sensitive", "type", "value"}
           /\ warn_calls = <<>>
           /\ fail_calls = <<>>
           /\ raised = None

C4_Witness ==
    /\ Classified
    /\ rc = 0
    /\ outputs_text = BukkitText
    /\ pc = "done"
    /\ exit_calls = <<[outputs |->
            [bukkit_arn |-> [sensitive |-> FALSE, type |-> "string",
                             value |-> "arn:aws:s3:::tf-test-bukkit"]]]>>

(***************************************************************************)
(* C5                                                                      *)
(***************************************************************************)
\* C5: every command handed to run_command is the binary, then "output",
\* "-no-color", "-json", then the state arguments: exactly "-state" and the
\* path for a state_file that is supplied and exists, and nothing (no
\* "-state" word at all) when state_file is omitted or empty.
C5_CommandLine ==
    \A i \in DOMAIN run_calls :
        LET cmd == run_calls[i].cmd IN
        /\ Len(cmd) >= 4
        /\ SubSeq(cmd, 1, 4) = <<ResolvedBinary, "output", "-no-color", "-json">>
        /\ (Truthy(state_file) /\ PresentThroughout(state_file))
             => SubSeq(cmd, 5, Len(cmd)) = <<"-state", state_file>>
        /\ (state_file \in {None, ""})
             => /\ Len(cmd) = 4
                /\ \A j \in DOMAIN cmd : cmd[j] # "-state"

C5_Witness ==
    /\ PresentThroughout(state_file)
    /\ Len(run_calls) = 1
    /\ run_calls[1].cmd = <<"/opt/tf/terraform", "output", "-no-color", "-json",
                            "-state", "/s/a.tfstate">>

(***************************************************************************)
(* C6                                                                      *)
(***************************************************************************)
\* C6 as stated: every invocation, on every path, has called run_command
\* exactly once when it ends.
C6_AsStated == Terminated => Len(run_calls) = 1

\* C6 amended: an invocation calls run_command at most once and never
\* retries; when it ends it has called it exactly once, except on the two
\* paths that fail before execution (binary lookup failure, missing state
\* file), where it has called it not at all.
C6_AtMostOneProcess ==
    /\ Len(run_calls) <= 1
    /\ Terminated =>
         Len(run_calls) = IF ReportedMissingBinary \/ ReportedMissingState THEN 0 ELSE 1

C6_Witness ==
    /\ pc = "done"
    /\ rc = 1
    /\ Len(warn_calls) = 1
    /\ Len(run_calls) = 1

(***************************************************************************)
(* C7                                                                      *)
(***************************************************************************)
\* C7: a supplied binary_path (anything but None, the empty string too) is
\* the first word of the command and get_bin_path is never called; without
\* one, get_bin_path("terraform", required=True) is called once, and when it
\* finds nothing the invocation fails before any run_command.
C7_BinaryResolution ==
    /\ binary_path # None
         => /\ get_bin_calls = <<>>
            /\ \A i \in DOMAIN run_calls : run_calls[i].cmd[1] = binary_path
    /\ (binary_path = None /\ pc # "main")
         => /\ get_bin_calls = <<[name |-> "terraform", required |-> TRUE]>>
            /\ \A i \in DOMAIN run_calls : run_calls[i].cmd[1] = which
            /\ which = None
                 => /\ pc = "failed"
                    /\ ReportedMissingBinary
                    /\ run_calls = <<>>

C7_Witness ==
    /\ binary_path = ""
    /\ Len(run_calls) = 1
    /\ run_calls[1].cmd[1] = ""
    /\ get_bin_calls = <<>>

(***************************************************************************)
(* C8                                                                      *)
(***************************************************************************)
\* C8: once a fatal condition has been reported (fail_json called, or the
\* decode error raised) the invocation has stopped: no step afterwards
\* starts a subprocess, records a warning, reports again or moves on, and
\* exit_json has not been and is never called in that invocation.
C8_FatalHalts ==
    /\ [](Fatal => (exit_calls = <<>> /\ pc \in {"failed", "raised"}))
    /\ [][Fatal => /\ run_calls' = run_calls
                   /\ warn_calls' = warn_calls
                   /\ exit_calls' = exit_calls
                   /\ fail_calls' = fail_calls
                   /\ raised' = raised
                   /\ pc' = pc]_vars

\* A fatal exit code reported, and the disk changed by others since.
C8_Witness ==
    /\ Fatal
    /\ pc = "failed"
    /\ rc = 2
    /\ Len(run_calls) = 1
    /\ run_calls[1].fs # fs
    /\ exit_calls = <<>>

(***************************************************************************)
(* C9                                                                      *)
(***************************************************************************)
\* C9: when the subprocess exits with code 0 and its standard output is not
\* valid JSON, the decoding error leaves main as an exception: fail_json is
\* not called, no warning is recorded and exit_json is not called.
C9_DecodeErrorPropagates ==
    (Classified /\ rc = 0 /\ outputs_text \notin DOMAIN JsonDocuments)
        => /\ pc = "raised"
           /\ raised = "JSONDecodeError"
           /\ fail_calls = <<>>
           /\ warn_calls = <<>>
           /\ exit_calls = <<>>

C9_Witness ==
    /\ Classified
    /\ rc = 0
    /\ outputs_text = "Error: no state"
    /\ pc = "raised"
    /\ raised = "JSONDecodeError"

(***************************************************************************)
(* C10                                                                     *)
(***************************************************************************)
\* C10: for a non-empty state_file, _state_args either returns
\* ["-state", path] or fails with the missing-state-file error; it never
\* returns the empty list, whatever other processes do to the file between
\* its two existence checks.
C10_NeverDropsStateFile ==
    (Truthy(state_file) /\ ~Validating)
        => \/ state_args = <<"-state", state_file>>
           \/ ReportedMissingState
           \/ ReportedMissingBinary

====
